---- MODULE Spec2Model ----
(***************************************************************************)
(* Model of piplicenses.py: the license resolution and policy enforcement  *)
(* engine (get_packages, select_license_by_source, the four               *)
(* case-insensitive set operations, create_licenses_table,                 *)
(* create_summary_table and main).                                         *)
(*                                                                         *)
(* A Python str is a sequence of one-character strings, so that            *)
(* str.lower(), the `in` substring test, str.split, str.strip, "; ".join   *)
(* and sorted() are computed and not assumed.                              *)
(***************************************************************************)
EXTENDS Integers, Sequences, FiniteSets, TLC

\* ------------------------------------------------------------------------
\* Bounds of the model
\* ------------------------------------------------------------------------
\* largest set_a / set_b drawn for the set operations
MaxSetSize == 2
\* longest sequence of installed distributions
MaxPkgs == 2
\* longest license_classifier list drawn for select_license_by_source
MaxClassifiers == 2

\* longest package name given to normalize_pkg_name
MaxNameLen == 4

\* ------------------------------------------------------------------------
\* Python str primitives
\* ------------------------------------------------------------------------
\* the characters the model uses, in code point order
Alphabet ==
    << " ", "-", ".", "0", "1", "2", "3", "4", "5", "6", "7", "8", "9",
       ":", ";",
       "A", "B", "C", "D", "E", "F", "G", "H", "I", "J", "K", "L", "M",
       "N", "O", "P", "Q", "R", "S", "T", "U", "V", "W", "X", "Y", "Z",
       "_",
       "a", "b", "c", "d", "e", "f", "g", "h", "i", "j", "k", "l", "m",
       "n", "o", "p", "q", "r", "s", "t", "u", "v", "w", "x", "y", "z" >>

Chars == {Alphabet[i] : i \in 1..Len(Alphabet)}

\* ord(c), as the position of c in Alphabet
OrdOf == [c \in Chars |-> CHOOSE i \in 1..Len(Alphabet) : Alphabet[i] = c]

Ord(c) == OrdOf[c]

\* c.lower(): an upper case letter ("A" is at 16) and its lower case form
\* ("a" is at 43) are 27 places apart in Alphabet
LowerOf ==
    [c \in Chars |->
        IF OrdOf[c] >= 16 /\ OrdOf[c] <= 41 THEN Alphabet[OrdOf[c] + 27]
        ELSE c]

LowerChar(c) == LowerOf[c]

\* str.lower()
Lower(s) == [i \in 1..Len(s) |-> LowerChar(s[i])]

\* `sub in s` for two str
Contains(sub, s) ==
    \E k \in 0..(Len(s) - Len(sub)) :
        \A i \in 1..Len(sub) : s[k + i] = sub[i]

\* s < t for two str (code point order, a proper prefix is smaller)
StrLess(s, t) ==
    \E k \in 1..(Len(t)) :
        /\ k <= Len(s) + 1
        /\ \A i \in 1..(k - 1) : s[i] = t[i]
        /\ \/ k = Len(s) + 1
           \/ k <= Len(s) /\ Ord(s[k]) < Ord(t[k])

\* sorted(S) for a set of str
RECURSIVE Sorted(_)
Sorted(S) ==
    IF S = {} THEN << >>
    ELSE LET m == CHOOSE x \in S : \A y \in S \ {x} : StrLess(x, y)
         IN  << m >> \o Sorted(S \ {m})

\* sep.join(seq)
RECURSIVE Join(_, _)
Join(sep, seq) ==
    IF Len(seq) = 0 THEN << >>
    ELSE IF Len(seq) = 1 THEN seq[1]
    ELSE seq[1] \o sep \o Join(sep, Tail(seq))

\* "; ".join(sorted(S))
JoinSorted(S) == Join(<< ";", " " >>, Sorted(S))

\* ------------------------------------------------------------------------
\* Case-insensitive set operations
\* ------------------------------------------------------------------------
\* a set operation either returns a set or raises
Returned(S) == [raised |-> FALSE, value |-> S]
KeyError == [raised |-> TRUE, value |-> {}]

\* set.intersection() as it is, without the lower-casing
set_intersect_case_sensitive(set_a, set_b) == set_a \cap set_b

case_insensitive_set_intersect(set_a, set_b) ==
    LET set_b_lower == {Lower(item) : item \in set_b}
    IN  {elem \in set_a : Lower(elem) \in set_b_lower}

\* the substring test without the lower-casing
partial_match_set_intersect_case_sensitive(set_a, set_b) ==
    {item_a \in set_a : \E item_b \in set_b : Contains(item_b, item_a)}

case_insensitive_partial_match_set_intersect(set_a, set_b) ==
    {item_a \in set_a :
        \E item_b \in set_b : Contains(Lower(item_b), Lower(item_a))}

\* the inner loop of case_insensitive_partial_match_set_diff: todo_b is the
\* part of set_b not yet visited; set.remove raises KeyError when item_a is
\* no longer in uncommon_items
RECURSIVE RemoveMatching(_, _, _)
RemoveMatching(item_a, todo_b, uncommon_items) ==
    IF todo_b = {} THEN Returned(uncommon_items)
    ELSE LET item_b == CHOOSE x \in todo_b : TRUE
         IN  IF Contains(Lower(item_b), Lower(item_a))
             THEN IF item_a \in uncommon_items
                  THEN RemoveMatching(item_a, todo_b \ {item_b},
                                      uncommon_items \ {item_a})
                  ELSE KeyError
             ELSE RemoveMatching(item_a, todo_b \ {item_b}, uncommon_items)

\* the outer loop: todo_a is the part of set_a not yet visited
RECURSIVE PartialDiffLoop(_, _, _)
PartialDiffLoop(todo_a, set_b, uncommon_items) ==
    IF todo_a = {} THEN Returned(uncommon_items)
    ELSE LET item_a == CHOOSE x \in todo_a : TRUE
             r == RemoveMatching(item_a, set_b, uncommon_items)
         IN  IF r.raised THEN r
             ELSE PartialDiffLoop(todo_a \ {item_a}, set_b, r.value)

case_insensitive_partial_match_set_diff(set_a, set_b) ==
    PartialDiffLoop(set_a, set_b, set_a)

case_insensitive_set_diff(set_a, set_b) ==
    LET set_b_lower == {Lower(item) : item \in set_b}
    IN  {elem \in set_a : Lower(elem) \notin set_b_lower}

\* ------------------------------------------------------------------------
\* More str primitives, used by get_packages and the table builders
\* ------------------------------------------------------------------------
\* sorted(seq) for a list of str (duplicates are kept)
RECURSIVE SortedList(_)
SortedList(seq) ==
    IF seq = << >> THEN << >>
    ELSE LET i == CHOOSE j \in 1..Len(seq) :
                      \A k \in 1..Len(seq) : ~StrLess(seq[k], seq[j])
         IN  << seq[i] >> \o
             SortedList([k \in 1..(Len(seq) - 1) |->
                            IF k < i THEN seq[k] ELSE seq[k + 1]])

\* s.split(sep) for a one-character separator
RECURSIVE Split(_, _)
Split(s, sep) ==
    IF \A i \in 1..Len(s) : s[i] # sep THEN << s >>
    ELSE LET i == CHOOSE j \in 1..Len(s) :
                      s[j] = sep /\ \A k \in 1..(j - 1) : s[k] # sep
         IN  << SubSeq(s, 1, i - 1) >> \o Split(SubSeq(s, i + 1, Len(s)), sep)

\* str.strip(); the blank is the only whitespace of Alphabet
RECURSIVE Strip(_)
Strip(s) ==
    IF s = << >> THEN s
    ELSE IF Head(s) = " " THEN Strip(Tail(s))
    ELSE IF s[Len(s)] = " " THEN Strip(SubSeq(s, 1, Len(s) - 1))
    ELSE s

\* set(map(str.strip, arg.split(";")))
SplitTerms(arg) ==
    LET parts == Split(arg, ";") IN {Strip(parts[i]) : i \in 1..Len(parts)}

PATTERN_DELIMITER == {"-", "_", "."}

RECURSIVE SubDelimiter(_)
\* every delimiter replaced by "-" on its own, as by a pattern without "+"
SubEachDelimiter(s) ==
    [i \in 1..Len(s) |-> IF s[i] \in PATTERN_DELIMITER THEN "-" ELSE s[i]]

\* PATTERN_DELIMITER.sub("-", s): every maximal run of delimiters becomes "-"
SubDelimiter(s) ==
    IF s = << >> THEN s
    ELSE IF Head(s) \in PATTERN_DELIMITER
         THEN IF Len(s) > 1 /\ s[2] \in PATTERN_DELIMITER
              THEN SubDelimiter(Tail(s))
              ELSE << "-" >> \o SubDelimiter(Tail(s))
         ELSE << Head(s) >> \o SubDelimiter(Tail(s))

normalize_pkg_name(pkg_name) == Lower(SubDelimiter(pkg_name))

\* ------------------------------------------------------------------------
\* License source selection
\* ------------------------------------------------------------------------
FromArg == {"META", "CLASSIFIER", "MIXED", "ALL"}

LICENSE_UNKNOWN == << "U", "N", "K", "N", "O", "W", "N" >>

SeqToSet(seq) == {seq[i] : i \in 1..Len(seq)}

\* the condition read as (CLASSIFIER or MIXED) and len(license_classifier) > 0
select_and_binds_last(from_source, license_classifier, license_meta) ==
    LET license_classifier_set ==
            IF SeqToSet(license_classifier) # {}
            THEN SeqToSet(license_classifier) ELSE {LICENSE_UNKNOWN}
    IN  IF /\ from_source = "CLASSIFIER" \/ from_source = "MIXED"
           /\ Len(license_classifier) > 0
        THEN license_classifier_set
        ELSE {license_meta}

\* --from=all resolved to the classifier licenses together with license_meta
select_all_merges(from_source, license_classifier, license_meta) ==
    LET license_classifier_set ==
            IF SeqToSet(license_classifier) # {}
            THEN SeqToSet(license_classifier) ELSE {LICENSE_UNKNOWN}
    IN  IF \/ from_source = "CLASSIFIER"
           \/ from_source = "MIXED" /\ Len(license_classifier) > 0
        THEN license_classifier_set
        ELSE IF from_source = "ALL"
             THEN SeqToSet(license_classifier) \cup {license_meta}
             ELSE {license_meta}

select_license_by_source(from_source, license_classifier, license_meta) ==
    LET license_classifier_set ==
            IF SeqToSet(license_classifier) # {}
            THEN SeqToSet(license_classifier) ELSE {LICENSE_UNKNOWN}
    IN  IF \/ from_source = "CLASSIFIER"
           \/ from_source = "MIXED" /\ Len(license_classifier) > 0
        THEN license_classifier_set
        ELSE {license_meta}

\* s.startswith(prefix)
StartsWith(s, prefix) ==
    Len(prefix) <= Len(s) /\ SubSeq(s, 1, Len(prefix)) = prefix

\* s.split(sep) for a separator of any length
RECURSIVE SplitOn(_, _)
SplitOn(s, sep) ==
    LET at == {i \in 1..(Len(s) - Len(sep) + 1) :
                  SubSeq(s, i, i + Len(sep) - 1) = sep}
    IN  IF at = {} THEN << s >>
        ELSE LET i == CHOOSE j \in at : \A k \in at : j <= k
             IN  << SubSeq(s, 1, i - 1) >> \o
                 SplitOn(SubSeq(s, i + Len(sep), Len(s)), sep)

sLicense == << "L", "i", "c", "e", "n", "s", "e" >>
sOSIApproved == << "O", "S", "I", " ", "A", "p", "p", "r", "o", "v", "e", "d" >>

RECURSIVE find_license_from_classifier(_)
find_license_from_classifier(classifiers) ==
    IF classifiers = << >> THEN << >>
    ELSE LET classifier == Head(classifiers)
             parts == SplitOn(classifier, << " ", ":", ":", " " >>)
             lic == parts[Len(parts)]
         IN  IF StartsWith(classifier, sLicense) /\ lic # sOSIApproved
             THEN << lic >> \o find_license_from_classifier(Tail(classifiers))
             ELSE find_license_from_classifier(Tail(classifiers))

\* ------------------------------------------------------------------------
\* Inputs of a run
\* ------------------------------------------------------------------------
__pkgname__ == << "p", "i", "p", "-", "l", "i", "c", "e", "n", "s", "e", "-", "a", "u", "d", "i", "t" >>

SYSTEM_PACKAGES ==
    { __pkgname__,
      << "p", "i", "p" >>,
      << "p", "r", "e", "t", "t", "y", "t", "a", "b", "l", "e" >>,
      << "w", "c", "w", "i", "d", "t", "h" >>,
      << "s", "e", "t", "u", "p", "t", "o", "o", "l", "s" >>,
      << "t", "o", "m", "l", "i" >>,
      << "w", "h", "e", "e", "l" >> }

\* license strings of the installed distributions
sMIT == << "M", "I", "T" >>
sMitLower == << "m", "i", "t" >>
sGPL == << "G", "P", "L" >>
sMITLicense == << "M", "I", "T", " ", "L", "i", "c", "e", "n", "s", "e" >>

\* classifiers of the installed distributions
cMITLicense ==
    << "L", "i", "c", "e", "n", "s", "e", " ", ":", ":", " ", "O", "S", "I", " ", "A", "p", "p", "r", "o", "v", "e", "d", " ", ":", ":", " ", "M", "I", "T", " ", "L", "i", "c", "e", "n", "s", "e" >>
cMIT == << "L", "i", "c", "e", "n", "s", "e", " ", ":", ":", " ", "M", "I", "T" >>
cGPL ==
    << "L", "i", "c", "e", "n", "s", "e", " ", ":", ":", " ", "O", "S", "I", " ", "A", "p", "p", "r", "o", "v", "e", "d", " ", ":", ":", " ", "G", "P", "L" >>
cOSIApproved ==
    << "L", "i", "c", "e", "n", "s", "e", " ", ":", ":", " ", "O", "S", "I", " ", "A", "p", "p", "r", "o", "v", "e", "d" >>
cTopic ==
    << "T", "o", "p", "i", "c", " ", ":", ":", " ", "U", "t", "i", "l", "i", "t", "i", "e", "s" >>

\* the distributions importlib_metadata.distributions() can yield: name and
\* version as declared, license the "license" metadata value (empty when the
\* field is missing), classifier the "classifier" metadata values
Distributions ==
    { [name |-> << "f", "o", "o" >>, version |-> << "1", ".", "0" >>, license |-> sMIT,
       classifier |-> << cTopic, cMITLicense, cMIT >>],
      [name |-> << "B", "_", "r" >>, version |-> << "2" >>, license |-> sGPL,
       classifier |-> << cOSIApproved >>],
      [name |-> << "p", "i", "p" >>, version |-> << "1", ".", "0" >>, license |-> << >>,
       classifier |-> << cGPL, cGPL >>],
      [name |-> << "f", "o", "o" >>, version |-> << "2" >>, license |-> sMitLower,
       classifier |-> << cGPL, cMIT >>] }

\* values of --fail-on; the empty str stands for an option that is not given
\* (None and "" are both false in `if args.fail_on`)
FailOnArgs ==
    { << >>, << "g", "p", "l", ";" >>, << "M", "I", "T", ";", " ", "L", "i", "c", "e", "n", "s", "e" >> }

\* values of --allow-only
AllowOnlyArgs ==
    { << >>, << "M", "I", "T", ";", "L", "i", "c", "e", "n", "s", "e" >>, << " ", "m", "i", "t", " ", ";" >> }

\* values of --ignore-packages
IgnorePackagesArgs == { << >>, << << "f", "o", "o", ":", "2" >>, << "B", ".", "R" >> >> }

\* values of --packages
PackagesArgs == { << >>, << << "F", "o", "o" >>, << "p", "i", "p" >> >> }

Args ==
    [from_ : FromArg, fail_on : FailOnArgs, allow_only : AllowOnlyArgs,
     partial_match : BOOLEAN, ignore_packages : IgnorePackagesArgs,
     packages : PackagesArgs, with_system : BOOLEAN, summary : BOOLEAN]

RECURSIVE SeqsUpTo(_, _)
SeqsUpTo(S, n) ==
    IF n = 0 THEN {<< >>}
    ELSE LET shorter == SeqsUpTo(S, n - 1)
         IN  shorter \cup {Append(q, x) : q \in shorter, x \in S}

\* ------------------------------------------------------------------------
\* State
\* ------------------------------------------------------------------------
VARIABLES
    args,               \* the parsed command line (CustomNamespace)
    pkgs,               \* the distributions, in the order they are yielded
    idx,                \* how many of pkgs the loop of get_packages pulled
    pc,                 \* where the run is: "next", "fail_on", "allow_only",
                        \* "yield" or "exit"
    pkg_info,           \* pkg_info of the distribution being processed
    license_names,      \* its resolved license set
    failed_licenses,    \* local of get_packages
    uncommon_licenses,  \* local of get_packages
    table,              \* rows added to the PrettyTable so far
    counts,             \* the Counter of create_summary_table, as a list of
                        \* <<lic, count>> in insertion order
    stdout,             \* what was printed to sys.stdout
    stderr,             \* what was written to sys.stderr
    exit_code,          \* exit status of the process, -1 while it runs
    set_a, set_b,       \* inputs of a set operation
    op,                 \* the set operation applied, "" before
    result,             \* what the set operation returned or raised
    from_source, license_classifier, license_meta,
                        \* inputs of select_license_by_source
    selected,           \* its result
    raw_name,           \* the name given to normalize_pkg_name
    normalized,         \* normalize_pkg_name(raw_name)
    renormalized,       \* normalize_pkg_name(normalized)
    normalize_calls     \* how many of the two calls were made

vars ==
    << args, pkgs, idx, pc, pkg_info, license_names, failed_licenses,
       uncommon_licenses, table, counts, stdout, stderr, exit_code,
       set_a, set_b, op, result,
       from_source, license_classifier, license_meta, selected,
       raw_name, normalized, renormalized, normalize_calls >>

runVars ==
    << args, pkgs, idx, pc, pkg_info, license_names, failed_licenses,
       uncommon_licenses, table, counts, stdout, stderr, exit_code >>

matchVars == << set_a, set_b, op, result >>

selectVars == << from_source, license_classifier, license_meta, selected >>

normalizeVars == << raw_name, normalized, renormalized, normalize_calls >>

NoPkgInfo ==
    [name |-> << >>, version |-> << >>, license |-> << >>,
     license_classifier |-> << >>]

\* the run has not started
RunIdle ==
    /\ args = [from_ |-> "MIXED", fail_on |-> << >>, allow_only |-> << >>,
               partial_match |-> FALSE, ignore_packages |-> << >>,
               packages |-> << >>, with_system |-> FALSE, summary |-> FALSE]
    /\ pkgs = << >>
    /\ idx = 0
    /\ pc = "idle"
    /\ pkg_info = NoPkgInfo
    /\ license_names = {}
    /\ failed_licenses = {}
    /\ uncommon_licenses = {}
    /\ table = << >>
    /\ counts = << >>
    /\ stdout = << >>
    /\ stderr = << >>
    /\ exit_code = -1

MatchIdle ==
    /\ set_a = {}
    /\ set_b = {}
    /\ op = ""
    /\ result = Returned({})

SelectIdle ==
    /\ from_source = "MIXED"
    /\ license_classifier = << >>
    /\ license_meta = LICENSE_UNKNOWN
    /\ selected = {}

NormalizeIdle ==
    /\ raw_name = << >>
    /\ normalized = << >>
    /\ renormalized = << >>
    /\ normalize_calls = 0

\* ------------------------------------------------------------------------
\* get_packages
\* ------------------------------------------------------------------------
ignore_pkgs_as_normalize ==
    {normalize_pkg_name(args.ignore_packages[i]) :
        i \in 1..Len(args.ignore_packages)}

pkgs_as_normalize ==
    {normalize_pkg_name(args.packages[i]) : i \in 1..Len(args.packages)}

fail_on_licenses ==
    IF args.fail_on # << >> THEN SplitTerms(args.fail_on) ELSE {}

allow_only_licenses ==
    IF args.allow_only # << >> THEN SplitTerms(args.allow_only) ELSE {}

pkg_name_of(pkg) == normalize_pkg_name(pkg.name)

pkg_name_and_version_of(pkg) == pkg_name_of(pkg) \o << ":" >> \o pkg.version

\* the include list consulted before the ignore list
IsIgnoredUnlessSelected(pkg) ==
    /\ \/ Lower(pkg_name_of(pkg)) \in ignore_pkgs_as_normalize
       \/ Lower(pkg_name_and_version_of(pkg)) \in ignore_pkgs_as_normalize
    /\ Lower(pkg_name_of(pkg)) \notin pkgs_as_normalize

\* first `continue` of the loop
IsIgnored(pkg) ==
    \/ Lower(pkg_name_of(pkg)) \in ignore_pkgs_as_normalize
    \/ Lower(pkg_name_and_version_of(pkg)) \in ignore_pkgs_as_normalize

\* second `continue` of the loop
IsNotSelected(pkg) ==
    pkgs_as_normalize # {} /\ Lower(pkg_name_of(pkg)) \notin pkgs_as_normalize

\* third `continue` of the loop
IsSystem(pkg) == ~args.with_system /\ pkg_name_of(pkg) \in SYSTEM_PACKAGES

\* pkg_info["license"] = value, without `or LICENSE_UNKNOWN`
get_pkg_info_without_default(pkg) ==
    [name |-> pkg.name,
     version |-> pkg.version,
     license |-> pkg.license,
     license_classifier |-> find_license_from_classifier(pkg.classifier)]

\* the fields of pkg_info the engine reads
get_pkg_info(pkg) ==
    [name |-> pkg.name,
     version |-> pkg.version,
     license |-> IF pkg.license # << >> THEN pkg.license ELSE LICENSE_UNKNOWN,
     license_classifier |-> find_license_from_classifier(pkg.classifier)]

SkipIgnored ==
    /\ pc = "next"
    /\ idx < Len(pkgs)
    /\ IsIgnored(pkgs[idx + 1])
    /\ idx' = idx + 1
    /\ UNCHANGED << args, pkgs, pc, pkg_info, license_names, failed_licenses,
                    uncommon_licenses, table, counts, stdout, stderr,
                    exit_code >>
    /\ UNCHANGED << matchVars, selectVars, normalizeVars >>

SkipNotSelected ==
    /\ pc = "next"
    /\ idx < Len(pkgs)
    /\ ~IsIgnored(pkgs[idx + 1])
    /\ IsNotSelected(pkgs[idx + 1])
    /\ idx' = idx + 1
    /\ UNCHANGED << args, pkgs, pc, pkg_info, license_names, failed_licenses,
                    uncommon_licenses, table, counts, stdout, stderr,
                    exit_code >>
    /\ UNCHANGED << matchVars, selectVars, normalizeVars >>

\* the system package test made after the policy checks: the distribution
\* is resolved and enforced first
SkipSystemAfterEnforcement ==
    /\ pc = "next"
    /\ idx < Len(pkgs)
    /\ ~IsIgnored(pkgs[idx + 1])
    /\ ~IsNotSelected(pkgs[idx + 1])
    /\ IsSystem(pkgs[idx + 1])
    /\ idx' = idx + 1
    /\ pkg_info' = get_pkg_info(pkgs[idx + 1])
    /\ license_names' =
           select_license_by_source(args.from_,
                                    pkg_info'.license_classifier,
                                    pkg_info'.license)
    /\ pc' = "fail_on"
    /\ UNCHANGED << args, pkgs, failed_licenses, uncommon_licenses, table,
                    counts, stdout, stderr, exit_code >>
    /\ UNCHANGED << matchVars, selectVars, normalizeVars >>

SkipSystem ==
    /\ pc = "next"
    /\ idx < Len(pkgs)
    /\ ~IsIgnored(pkgs[idx + 1])
    /\ ~IsNotSelected(pkgs[idx + 1])
    /\ IsSystem(pkgs[idx + 1])
    /\ idx' = idx + 1
    /\ UNCHANGED << args, pkgs, pc, pkg_info, license_names, failed_licenses,
                    uncommon_licenses, table, counts, stdout, stderr,
                    exit_code >>
    /\ UNCHANGED << matchVars, selectVars, normalizeVars >>

\* the allow-only block placed before the fail-on block
ResolveThenAllowOnly ==
    /\ pc = "next"
    /\ idx < Len(pkgs)
    /\ ~IsIgnored(pkgs[idx + 1])
    /\ ~IsNotSelected(pkgs[idx + 1])
    /\ ~IsSystem(pkgs[idx + 1])
    /\ idx' = idx + 1
    /\ pkg_info' = get_pkg_info(pkgs[idx + 1])
    /\ license_names' =
           select_license_by_source(args.from_,
                                    pkg_info'.license_classifier,
                                    pkg_info'.license)
    /\ pc' = "allow_only"
    /\ UNCHANGED << args, pkgs, failed_licenses, uncommon_licenses, table,
                    counts, stdout, stderr, exit_code >>
    /\ UNCHANGED << matchVars, selectVars, normalizeVars >>

\* the distribution passes the three tests: get_pkg_info and
\* select_license_by_source
Resolve ==
    /\ pc = "next"
    /\ idx < Len(pkgs)
    /\ ~IsIgnored(pkgs[idx + 1])
    /\ ~IsNotSelected(pkgs[idx + 1])
    /\ ~IsSystem(pkgs[idx + 1])
    /\ idx' = idx + 1
    /\ pkg_info' = get_pkg_info(pkgs[idx + 1])
    /\ license_names' =
           select_license_by_source(args.from_,
                                    pkg_info'.license_classifier,
                                    pkg_info'.license)
    /\ pc' = "fail_on"
    /\ UNCHANGED << args, pkgs, failed_licenses, uncommon_licenses, table,
                    counts, stdout, stderr, exit_code >>
    /\ UNCHANGED << matchVars, selectVars, normalizeVars >>

\* the two branches of `if not args.partial_match` exchanged
FailedLicensesBranchesExchanged(names) ==
    IF args.partial_match
    THEN case_insensitive_set_intersect(names, fail_on_licenses)
    ELSE case_insensitive_partial_match_set_intersect(names, fail_on_licenses)

\* the fail-on intersection of get_packages
FailedLicenses(names) ==
    IF ~args.partial_match
    THEN case_insensitive_set_intersect(names, fail_on_licenses)
    ELSE case_insensitive_partial_match_set_intersect(names, fail_on_licenses)

\* the allow-only difference of get_packages
UncommonLicenses(names) ==
    IF ~args.partial_match
    THEN Returned(case_insensitive_set_diff(names, allow_only_licenses))
    ELSE case_insensitive_partial_match_set_diff(names, allow_only_licenses)

\* a line written to sys.stderr by get_packages
Diagnostic(kind, licenses) ==
    [kind |-> kind, licenses |-> JoinSorted(licenses),
     name |-> pkg_info.name, version |-> pkg_info.version]

\* what the interpreter writes to sys.stderr for an uncaught exception
Traceback(exception) ==
    [kind |-> exception, licenses |-> << >>, name |-> << >>,
     version |-> << >>]

FailOnPass ==
    /\ pc = "fail_on"
    /\ \/ fail_on_licenses = {} /\ UNCHANGED failed_licenses
       \/ /\ fail_on_licenses # {}
          /\ FailedLicenses(license_names) = {}
          /\ failed_licenses' = {}
    /\ pc' = "allow_only"
    /\ UNCHANGED << args, pkgs, idx, pkg_info, license_names,
                    uncommon_licenses, table, counts, stdout, stderr,
                    exit_code >>
    /\ UNCHANGED << matchVars, selectVars, normalizeVars >>

FailOnReject ==
    /\ pc = "fail_on"
    /\ fail_on_licenses # {}
    /\ failed_licenses' = FailedLicenses(license_names)
    /\ failed_licenses' # {}
    /\ stderr' = Append(stderr, Diagnostic("fail-on", failed_licenses'))
    /\ exit_code' = 1
    /\ pc' = "exit"
    /\ UNCHANGED << args, pkgs, idx, pkg_info, license_names,
                    uncommon_licenses, table, counts, stdout >>
    /\ UNCHANGED << matchVars, selectVars, normalizeVars >>

AllowOnlyPass ==
    /\ pc = "allow_only"
    /\ \/ allow_only_licenses = {} /\ UNCHANGED uncommon_licenses
       \/ /\ allow_only_licenses # {}
          /\ ~UncommonLicenses(license_names).raised
          /\ uncommon_licenses' = UncommonLicenses(license_names).value
          /\ Cardinality(uncommon_licenses') # Cardinality(license_names)
    /\ pc' = "yield"
    /\ UNCHANGED << args, pkgs, idx, pkg_info, license_names,
                    failed_licenses, table, counts, stdout, stderr,
                    exit_code >>
    /\ UNCHANGED << matchVars, selectVars, normalizeVars >>

AllowOnlyReject ==
    /\ pc = "allow_only"
    /\ allow_only_licenses # {}
    /\ ~UncommonLicenses(license_names).raised
    /\ uncommon_licenses' = UncommonLicenses(license_names).value
    /\ Cardinality(uncommon_licenses') = Cardinality(license_names)
    /\ stderr' = Append(stderr, Diagnostic("allow-only", uncommon_licenses'))
    /\ exit_code' = 1
    /\ pc' = "exit"
    /\ UNCHANGED << args, pkgs, idx, pkg_info, license_names,
                    failed_licenses, table, counts, stdout >>
    /\ UNCHANGED << matchVars, selectVars, normalizeVars >>

\* case_insensitive_partial_match_set_diff raises KeyError; nothing catches
\* it, the interpreter prints the traceback and exits with status 1
AllowOnlyRaise ==
    /\ pc = "allow_only"
    /\ allow_only_licenses # {}
    /\ UncommonLicenses(license_names).raised
    /\ stderr' = Append(stderr, Traceback("KeyError"))
    /\ exit_code' = 1
    /\ pc' = "exit"
    /\ UNCHANGED << args, pkgs, idx, pkg_info, license_names,
                    failed_licenses, uncommon_licenses, table, counts,
                    stdout >>
    /\ UNCHANGED << matchVars, selectVars, normalizeVars >>

\* ------------------------------------------------------------------------
\* create_licenses_table, create_summary_table, main
\* ------------------------------------------------------------------------
\* get_output_fields with the default options: Name, Version and either
\* License or, for --from=all, License-Metadata and License-Classifier
LicenseRow(pkg) ==
    IF args.from_ = "ALL"
    THEN << pkg.name, pkg.version, pkg.license,
            IF pkg.license_classifier # << >>
            THEN Join(<< ";", " " >>, SortedList(pkg.license_classifier))
            ELSE LICENSE_UNKNOWN >>
    ELSE << pkg.name, pkg.version,
            JoinSorted(select_license_by_source(args.from_,
                                                pkg.license_classifier,
                                                pkg.license)) >>

\* counter[lic] = 1 in place of counter[lic] += 1
CounterSet(counter, lic) ==
    IF \E k \in 1..Len(counter) : counter[k][1] = lic
    THEN [k \in 1..Len(counter) |->
             IF counter[k][1] = lic THEN << lic, 1 >> ELSE counter[k]]
    ELSE Append(counter, << lic, 1 >>)

\* Counter update for one key
RECURSIVE CounterAdd(_, _)
CounterAdd(counter, lic) ==
    IF counter = << >> THEN << << lic, 1 >> >>
    ELSE IF Head(counter)[1] = lic
         THEN << << lic, Head(counter)[2] + 1 >> >> \o Tail(counter)
         ELSE << Head(counter) >> \o CounterAdd(Tail(counter), lic)

\* s < t for two lists of str
RECURSIVE ListLess(_, _)
ListLess(s, t) ==
    IF t = << >> THEN FALSE
    ELSE IF s = << >> THEN TRUE
    ELSE IF Head(s) = Head(t) THEN ListLess(Tail(s), Tail(t))
    ELSE StrLess(Head(s), Head(t))

\* get_sortby with the default --order: "License" for a summary, else "Name";
\* the table sorts on the value of that column, then on the whole row (the
\* License values of a summary are distinct, so the column decides)
SortKey(row) == IF args.summary THEN << row[2] >> ELSE << row[1] >> \o row

\* table.get_string(sortby=sortby): the rows in printed order
RECURSIVE SortRows(_)
SortRows(rows) ==
    IF rows = << >> THEN << >>
    ELSE LET i == CHOOSE j \in 1..Len(rows) :
                      \A k \in 1..Len(rows) :
                          /\ ~ListLess(SortKey(rows[k]), SortKey(rows[j]))
                          /\ SortKey(rows[k]) = SortKey(rows[j]) => j <= k
         IN  << rows[i] >> \o
             SortRows([k \in 1..(Len(rows) - 1) |->
                          IF k < i THEN rows[k] ELSE rows[k + 1]])

\* the row is printed as soon as it is built
YieldRowPrinted ==
    /\ pc = "yield"
    /\ ~args.summary
    /\ table' = Append(table, LicenseRow(pkg_info))
    /\ stdout' = Append(stdout, << LicenseRow(pkg_info) >>)
    /\ pc' = "next"
    /\ UNCHANGED << args, pkgs, idx, pkg_info, license_names,
                    failed_licenses, uncommon_licenses, counts,
                    stderr, exit_code >>
    /\ UNCHANGED << matchVars, selectVars, normalizeVars >>

\* get_packages yields pkg_info to create_licenses_table, which adds its row
YieldRow ==
    /\ pc = "yield"
    /\ ~args.summary
    /\ table' = Append(table, LicenseRow(pkg_info))
    /\ pc' = "next"
    /\ UNCHANGED << args, pkgs, idx, pkg_info, license_names,
                    failed_licenses, uncommon_licenses, counts, stdout,
                    stderr, exit_code >>
    /\ UNCHANGED << matchVars, selectVars, normalizeVars >>

\* get_packages yields pkg_info to the Counter of create_summary_table
YieldCount ==
    /\ pc = "yield"
    /\ args.summary
    /\ counts' =
           CounterAdd(counts,
                      JoinSorted(select_license_by_source(
                                     args.from_,
                                     pkg_info.license_classifier,
                                     pkg_info.license)))
    /\ pc' = "next"
    /\ UNCHANGED << args, pkgs, idx, pkg_info, license_names,
                    failed_licenses, uncommon_licenses, table, stdout,
                    stderr, exit_code >>
    /\ UNCHANGED << matchVars, selectVars, normalizeVars >>

\* get_packages is exhausted: the table is completed (for a summary, one row
\* per item of the Counter), rendered and printed by main, which returns
Finish ==
    /\ pc = "next"
    /\ idx = Len(pkgs)
    /\ table' = IF args.summary
                THEN [i \in 1..Len(counts) |->
                         << counts[i][2], counts[i][1] >>]
                ELSE table
    /\ stdout' = Append(stdout, SortRows(table'))
    /\ exit_code' = 0
    /\ pc' = "exit"
    /\ UNCHANGED << args, pkgs, idx, pkg_info, license_names,
                    failed_licenses, uncommon_licenses, counts, stderr >>
    /\ UNCHANGED << matchVars, selectVars, normalizeVars >>

\* ------------------------------------------------------------------------
\* A run of the program
\* ------------------------------------------------------------------------
Init ==
    /\ args \in Args
    /\ pkgs \in SeqsUpTo(Distributions, MaxPkgs)
    /\ idx = 0
    /\ pc = "next"
    /\ pkg_info = NoPkgInfo
    /\ license_names = {}
    /\ failed_licenses = {}
    /\ uncommon_licenses = {}
    /\ table = << >>
    /\ counts = << >>
    /\ stdout = << >>
    /\ stderr = << >>
    /\ exit_code = -1
    /\ MatchIdle
    /\ SelectIdle
    /\ NormalizeIdle

Next ==
    \/ SkipIgnored
    \/ SkipNotSelected
    \/ SkipSystem
    \/ Resolve
    \/ FailOnPass
    \/ FailOnReject
    \/ AllowOnlyPass
    \/ AllowOnlyReject
    \/ AllowOnlyRaise
    \/ YieldRow
    \/ YieldCount
    \/ Finish

Spec == Init /\ [][Next]_vars

\* ------------------------------------------------------------------------
\* The set operations applied to arbitrary sets
\* ------------------------------------------------------------------------
MatchChars == {"A", "a", "b"}

\* the empty str, the one-letter and the two-letter str over MatchChars
MatchStrings ==
    {<< >>} \cup {<< c >> : c \in MatchChars}
            \cup {<< c, d >> : c \in MatchChars, d \in MatchChars}

RECURSIVE SetsUpTo(_, _)
SetsUpTo(S, n) ==
    IF n = 0 THEN {{}}
    ELSE LET smaller == SetsUpTo(S, n - 1)
         IN  smaller \cup {T \cup {x} : T \in smaller, x \in S}

InitMatch ==
    /\ set_a \in SetsUpTo(MatchStrings, MaxSetSize)
    /\ set_b \in SetsUpTo(MatchStrings, MaxSetSize)
    /\ op = ""
    /\ result = Returned({})
    /\ RunIdle
    /\ SelectIdle
    /\ NormalizeIdle

ExactIntersect ==
    /\ op = ""
    /\ op' = "exactIntersect"
    /\ result' = Returned(case_insensitive_set_intersect(set_a, set_b))
    /\ UNCHANGED << set_a, set_b, runVars, selectVars, normalizeVars >>

ExactDifference ==
    /\ op = ""
    /\ op' = "exactDifference"
    /\ result' = Returned(case_insensitive_set_diff(set_a, set_b))
    /\ UNCHANGED << set_a, set_b, runVars, selectVars, normalizeVars >>

PartialIntersect ==
    /\ op = ""
    /\ op' = "partialIntersect"
    /\ result' =
           Returned(case_insensitive_partial_match_set_intersect(set_a, set_b))
    /\ UNCHANGED << set_a, set_b, runVars, selectVars, normalizeVars >>

PartialDifference ==
    /\ op = ""
    /\ op' = "partialDifference"
    /\ result' = case_insensitive_partial_match_set_diff(set_a, set_b)
    /\ UNCHANGED << set_a, set_b, runVars, selectVars, normalizeVars >>

NextMatch ==
    \/ ExactIntersect
    \/ ExactDifference
    \/ PartialIntersect
    \/ PartialDifference

SpecMatch == InitMatch /\ [][NextMatch]_vars

\* ------------------------------------------------------------------------
\* select_license_by_source applied to arbitrary inputs
\* ------------------------------------------------------------------------
SelectLicenses == {sMIT, sGPL, LICENSE_UNKNOWN}

InitSelect ==
    /\ from_source \in FromArg
    /\ license_classifier \in SeqsUpTo(SelectLicenses, MaxClassifiers)
    /\ license_meta \in SelectLicenses
    /\ selected = {}
    /\ RunIdle
    /\ MatchIdle
    /\ NormalizeIdle

Select ==
    /\ selected = {}
    /\ selected' = select_license_by_source(from_source, license_classifier,
                                            license_meta)
    /\ UNCHANGED << from_source, license_classifier, license_meta,
                    runVars, matchVars, normalizeVars >>

NextSelect == Select

SpecSelect == InitSelect /\ [][NextSelect]_vars

\* ------------------------------------------------------------------------
\* Vocabulary of the properties
\* ------------------------------------------------------------------------
\* a license matches a policy term: equal (exact) or containing it (partial),
\* both on the lower-cased forms
MatchesTerm(lic, term) ==
    IF args.partial_match THEN Contains(Lower(term), Lower(lic))
    ELSE Lower(lic) = Lower(term)

\* the licenses of names that match some term of the policy list
PolicyIntersection(names, policy) ==
    {lic \in names : \E term \in policy : MatchesTerm(lic, term)}

LastStderr == stderr[Len(stderr)]

FailOnRejected ==
    pc = "exit" /\ stderr # << >> /\ LastStderr.kind = "fail-on"

AllowOnlyRejected ==
    pc = "exit" /\ stderr # << >> /\ LastStderr.kind = "allow-only"

PolicyRejected == FailOnRejected \/ AllowOnlyRejected

\* the distribution resolved last has been through the fail-on step
PastFailOn == pkg_info # NoPkgInfo /\ pc # "fail_on"

\* ... and through the allow-only step
PastAllowOnly ==
    pkg_info # NoPkgInfo /\ pc \notin {"fail_on", "allow_only"}
    /\ ~FailOnRejected

\* the enforcer returned Continue for the distribution resolved last
Continued == pc \in {"yield", "next"} \/ (pc = "exit" /\ exit_code = 0)

PassesFilter(pkg) == ~IsIgnored(pkg) /\ ~IsNotSelected(pkg) /\ ~IsSystem(pkg)

ResolvedSet(pkg) ==
    select_license_by_source(args.from_, get_pkg_info(pkg).license_classifier,
                             get_pkg_info(pkg).license)

\* the distribution passes the filter and violates the policy
Violates(pkg) ==
    /\ PassesFilter(pkg)
    /\ \/ /\ fail_on_licenses # {}
          /\ PolicyIntersection(ResolvedSet(pkg), fail_on_licenses) # {}
       \/ /\ allow_only_licenses # {}
          /\ PolicyIntersection(ResolvedSet(pkg), allow_only_licenses) = {}

Violations == {i \in 1..Len(pkgs) : Violates(pkgs[i])}

FirstViolation == CHOOSE i \in Violations : \A j \in Violations : i <= j

\* q lists the elements of S once each, in ascending order
IsSortedListOf(q, S) ==
    /\ Len(q) = Cardinality(S)
    /\ SeqToSet(q) = S
    /\ \A i \in 1..(Len(q) - 1) : StrLess(q[i], q[i + 1])

\* the rows of the distributions of pkgs[1..n] that pass the filter, in order
RECURSIVE AcceptedRows(_)
AcceptedRows(n) ==
    IF n = 0 THEN << >>
    ELSE IF PassesFilter(pkgs[n])
         THEN Append(AcceptedRows(n - 1), LicenseRow(get_pkg_info(pkgs[n])))
         ELSE AcceptedRows(n - 1)

\* ------------------------------------------------------------------------
\* Properties of a run (Spec)
\* ------------------------------------------------------------------------
\* C1: with a non-empty fail-on list, a distribution that went through the
\* fail-on step is rejected with "fail-on" if and only if some license of its
\* resolved set matches a fail-on term (exactly, or partially with
\* --partial-match, case-insensitively), and the licenses reported are
\* exactly the matching ones.
C1_FailOnIffIntersects ==
    (fail_on_licenses # {} /\ PastFailOn) =>
        LET hit == PolicyIntersection(license_names, fail_on_licenses)
        IN  /\ FailOnRejected <=> hit # {}
            /\ FailOnRejected =>
                   /\ failed_licenses = hit
                   /\ LastStderr.licenses = JoinSorted(hit)

\* one license of a compound resolved set is in the fail-on list, the other
\* is not, and the run is rejected
C1_Witness ==
    /\ FailOnRejected
    /\ Cardinality(license_names) = 2
    /\ Cardinality(failed_licenses) = 1

\* C2: with a non-empty allow-only list, a distribution that passed the
\* fail-on step is rejected with "allow-only" if and only if none of its
\* licenses matches an allow-only term, the whole resolved set being
\* reported; with at least one allowed license the outcome is Continue.
C2_AllowOnlyIffNoOverlap ==
    (allow_only_licenses # {} /\ PastAllowOnly) =>
        IF PolicyIntersection(license_names, allow_only_licenses) = {}
        THEN /\ AllowOnlyRejected
             /\ LastStderr.licenses = JoinSorted(license_names)
        ELSE Continued

\* C3: a run that ends over a sequence holding a distribution that passes
\* the filter and violates the policy ends rejected at the first such
\* distribution, and nothing after it was pulled from the sequence.
C3_RejectedAtFirstViolation ==
    (pc = "exit" /\ Violations # {}) =>
        /\ PolicyRejected
        /\ idx = FirstViolation
        /\ pkg_info = get_pkg_info(pkgs[FirstViolation])

\* C4: a policy rejection ends the run with exit code 1, one line on stderr
\* naming the policy kind, the name and version of the distribution and the
\* offending licenses in ascending order, and nothing on stdout.
C4_RejectionOutput ==
    PolicyRejected =>
        /\ exit_code = 1
        /\ Len(stderr) = 1
        /\ stdout = << >>
        /\ LastStderr.name = pkgs[idx].name
        /\ LastStderr.version = pkgs[idx].version
        /\ LET offending == IF FailOnRejected THEN failed_licenses
                            ELSE uncommon_licenses
           IN  /\ offending # {}
               /\ offending \subseteq license_names
               /\ \E q \in SeqsUpTo(offending, Cardinality(offending)) :
                      /\ IsSortedListOf(q, offending)
                      /\ LastStderr.licenses = Join(<< ";", " " >>, q)

\* a distribution had its row added to the table, then a later one is
\* rejected with two offending licenses
C4_Witness ==
    /\ PolicyRejected
    /\ table # << >>
    /\ Cardinality(failed_licenses) = 2

\* C5: a run over a sequence in which no distribution violates the policy
\* ends with exit code 0, and in listing mode the table holds one row for
\* each distribution that passes the filter, in the order of the sequence.
C5_CompleteListing ==
    (pc = "exit" /\ Violations = {}) =>
        /\ exit_code = 0
        /\ ~args.summary => table = AcceptedRows(Len(pkgs))

\* ------------------------------------------------------------------------
\* Properties of select_license_by_source (SpecSelect)
\* ------------------------------------------------------------------------
\* C6: the result is the set of the classifier licenses ({"UNKNOWN"} when
\* there is none) for CLASSIFIER and for MIXED with classifiers, and the
\* singleton of the declared license otherwise.
C6_SelectLicenses ==
    selected # {} =>
        IF \/ from_source = "CLASSIFIER"
           \/ from_source = "MIXED" /\ license_classifier # << >>
        THEN IF license_classifier = << >> THEN selected = {LICENSE_UNKNOWN}
             ELSE /\ \A i \in 1..Len(license_classifier) :
                         license_classifier[i] \in selected
                  /\ \A lic \in selected :
                         \E i \in 1..Len(license_classifier) :
                             license_classifier[i] = lic
        ELSE selected = {license_meta}

\* a classifier list holding the same license twice resolves to one license
C6_Witness ==
    /\ from_source = "MIXED"
    /\ Len(license_classifier) = 2
    /\ license_classifier[1] = license_classifier[2]
    /\ selected = {license_classifier[1]}
    /\ license_meta \notin selected

\* ------------------------------------------------------------------------
\* Properties of the set operations (SpecMatch)
\* ------------------------------------------------------------------------
\* item_a contains item_b, case-insensitively
ContainsCI(item_a, item_b) == Contains(Lower(item_b), Lower(item_a))

\* C7: each of the four operations returns a set for every pair of sets, and
\* never raises.
C7_Total == op # "" => ~result.raised

\* C8: partialIntersect(a, b) is the set of the elements of a that contain
\* some element of b, partialDifference(a, b) the set of those that contain
\* none, case-insensitively.
C8_PartialOperations ==
    /\ op = "partialIntersect" =>
           result = Returned({x \in set_a : \E y \in set_b : ContainsCI(x, y)})
    /\ op = "partialDifference" =>
           result = Returned({x \in set_a : \A y \in set_b : ~ContainsCI(x, y)})

\* C9: exactIntersect(a, b) is the set of the elements of a, as spelled in
\* a, whose lower-cased form is the lower-cased form of some element of b;
\* exactDifference(a, b) is the rest of a; exactIntersect(a, a) = a and
\* exactDifference(a, a) = {}.
C9_ExactOperations ==
    LET common == {x \in set_a : \E y \in set_b : Lower(x) = Lower(y)}
    IN  /\ op = "exactIntersect" =>
               /\ result = Returned(common)
               /\ set_a = set_b => result.value = set_a
        /\ op = "exactDifference" =>
               /\ result = Returned(set_a \ common)
               /\ set_a = set_b => result.value = {}

\* an element of a is returned that is in b only under another casing
C9_Witness ==
    /\ op = "exactIntersect"
    /\ result.value # {}
    /\ result.value \cap set_b = {}

\* C10: partialIntersect(a, b) is a superset of exactIntersect(a, b).
C10_PartialSupersetOfExact ==
    op = "partialIntersect" =>
        case_insensitive_set_intersect(set_a, set_b) \subseteq result.value

\* the partial intersection is strictly larger than a non-empty exact one
C10_Witness ==
    /\ op = "partialIntersect"
    /\ case_insensitive_set_intersect(set_a, set_b) # {}
    /\ result.value # case_insensitive_set_intersect(set_a, set_b)

\* ------------------------------------------------------------------------
\* One distribution through the three tests and the resolution of
\* get_packages, over more names, versions, metadata and lists
\* ------------------------------------------------------------------------
ResolveNames == { << "f", "o", "o" >>, << "B", "_", "r" >>, << "p", "i", "p" >> }

ResolveVersions == { << "1", ".", "0" >>, << "2" >> }

ResolveClassifiers ==
    { << >>, << cOSIApproved >>, << cTopic, cMITLicense >>, << cGPL, cGPL >> }

ResolveDistributions ==
    [name : ResolveNames, version : ResolveVersions, license : {<< >>, sMIT},
     classifier : ResolveClassifiers]

\* values of --ignore-packages
ResolveIgnoreArgs ==
    { << >>,
      << << "f", "o", "o", ":", "1", ".", "0" >> >>,
      << << "f", "o", "o", ":", "2" >> >>,
      << << "f", "o", "o" >> >>,
      << << "B", "_", "r", ":", "2" >>, << "p", "i", "p" >> >> }

\* values of --packages
ResolvePackagesArgs ==
    { << >>, << << "F", "o", "o" >> >>, << << "B", ".", "r" >>, << "p", "i", "p" >> >> }

ResolveArgs ==
    [from_ : FromArg, fail_on : {<< >>}, allow_only : {<< >>},
     partial_match : {FALSE}, ignore_packages : ResolveIgnoreArgs,
     packages : ResolvePackagesArgs, with_system : BOOLEAN,
     summary : {FALSE}]

InitResolve ==
    /\ args \in ResolveArgs
    /\ pkgs \in {<< d >> : d \in ResolveDistributions}
    /\ idx = 0
    /\ pc = "next"
    /\ pkg_info = NoPkgInfo
    /\ license_names = {}
    /\ failed_licenses = {}
    /\ uncommon_licenses = {}
    /\ table = << >>
    /\ counts = << >>
    /\ stdout = << >>
    /\ stderr = << >>
    /\ exit_code = -1
    /\ MatchIdle
    /\ SelectIdle
    /\ NormalizeIdle

NextResolve ==
    \/ SkipIgnored
    \/ SkipNotSelected
    \/ SkipSystem
    \/ Resolve

SpecResolve == InitResolve /\ [][NextResolve]_vars

\* ------------------------------------------------------------------------
\* Properties of the filter and of the resolution (SpecResolve)
\* ------------------------------------------------------------------------
\* the loop dropped the distribution / went on to enforce the policy on it
Excluded == idx = 1 /\ pc = "next"
Accepted == idx = 1 /\ pc = "fail_on"

\* the --ignore-packages entry name:version for the distribution
Pinned(pkg, version) == pkg.name \o << ":" >> \o version

\* C11: an ignore list holding "n:v" excludes the distribution n at version
\* v; one holding only entries "n:w" for other versions w does not exclude
\* it; one holding the bare "n" excludes it whatever its version.
C11_VersionPinnedExclusion ==
    idx = 1 =>
        LET pkg == pkgs[1]
            entries == SeqToSet(args.ignore_packages)
        IN  /\ Pinned(pkg, pkg.version) \in entries => Excluded
            /\ pkg.name \in entries => Excluded
            /\ ( /\ entries # {}
                 /\ \A e \in entries :
                        \E w \in ResolveVersions \ {pkg.version} :
                            e = Pinned(pkg, w)
                 /\ args.packages = << >>
                 /\ args.with_system ) => Accepted

\* C12: the distribution is dropped if its normalized name or its
\* name:version key is in the normalized ignore list, even when it is in
\* the include list; else if the include list is not empty and lacks its
\* normalized name; else if system packages are off and it is one; else it
\* is accepted.
C12_FilterOrder ==
    idx = 1 =>
        LET name == normalize_pkg_name(pkgs[1].name)
            key == name \o << ":" >> \o pkgs[1].version
            exclude == {normalize_pkg_name(e) :
                           e \in SeqToSet(args.ignore_packages)}
            include == {normalize_pkg_name(e) :
                           e \in SeqToSet(args.packages)}
        IN  IF name \in exclude \/ key \in exclude THEN Excluded
            ELSE IF include # {} /\ name \notin include THEN Excluded
            ELSE IF ~args.with_system /\ name \in SYSTEM_PACKAGES
                 THEN Excluded
            ELSE Accepted

\* a distribution named in both lists is dropped
C12_Witness ==
    /\ Excluded
    /\ normalize_pkg_name(pkgs[1].name) \in
           {normalize_pkg_name(e) : e \in SeqToSet(args.ignore_packages)}
    /\ normalize_pkg_name(pkgs[1].name) \in
           {normalize_pkg_name(e) : e \in SeqToSet(args.packages)}

\* ------------------------------------------------------------------------
\* More properties of a run (Spec)
\* ------------------------------------------------------------------------
\* the licenses find_license_from_classifier gave for the distribution
\* resolved last
ClassifierLicenses == SeqToSet(pkg_info.license_classifier)

Consumed ==
    IF pc \in {"fail_on", "allow_only", "yield"}
       \/ (pc = "exit" /\ exit_code = 1)
    THEN idx - 1 ELSE idx

Yielded == {i \in 1..Consumed : PassesFilter(pkgs[i])}

\* key is the licenses of S in ascending order joined by "; "
RendersTo(S, key) ==
    \E q \in SeqsUpTo(S, Cardinality(S)) :
        IsSortedListOf(q, S) /\ key = Join(<< ";", " " >>, q)

RECURSIVE SumCounts(_)
SumCounts(counter) ==
    IF counter = << >> THEN 0 ELSE Head(counter)[2] + SumCounts(Tail(counter))

\* C15: in summary mode the count under each key is the number of yielded
\* distributions whose resolved set renders to that key, every yielded
\* distribution has its key, no key is held twice, and the counts add up to
\* the number of yielded distributions.
C15_SummaryCounts ==
    args.summary =>
        /\ \A k \in 1..Len(counts) :
               counts[k][2] =
                   Cardinality({i \in Yielded :
                                   RendersTo(ResolvedSet(pkgs[i]),
                                             counts[k][1])})
        /\ \A i \in Yielded :
               \E k \in 1..Len(counts) :
                   RendersTo(ResolvedSet(pkgs[i]), counts[k][1])
        /\ \A k \in 1..Len(counts) :
               \A l \in 1..Len(counts) :
                   counts[k][1] = counts[l][1] => k = l
        /\ SumCounts(counts) = Cardinality(Yielded)

\* two distributions with the same compound resolved set were counted under
\* one key
C15_Witness ==
    /\ args.summary
    /\ pc = "exit"
    /\ exit_code = 0
    /\ Cardinality(license_names) = 2
    /\ \E k \in 1..Len(counts) : counts[k][2] = 2

\* C17: with both lists given, a distribution whose resolved set matches
\* fail-on and has no overlap with allow-only is rejected with "fail-on" and
\* the fail-on intersection; an "allow-only" rejection only happens to a
\* distribution whose fail-on intersection is empty.
C17_FailOnBeforeAllowOnly ==
    LET hit == PolicyIntersection(license_names, fail_on_licenses)
    IN  /\ ( /\ fail_on_licenses # {}
             /\ allow_only_licenses # {}
             /\ PastFailOn
             /\ hit # {}
             /\ PolicyIntersection(license_names, allow_only_licenses) = {} )
            => /\ FailOnRejected
               /\ LastStderr.licenses = JoinSorted(hit)
        /\ AllowOnlyRejected => hit = {}

\* a distribution violating both lists is rejected with "fail-on"
C17_Witness ==
    /\ FailOnRejected
    /\ allow_only_licenses # {}
    /\ PolicyIntersection(license_names, allow_only_licenses) = {}

\* the Package Filter rejects the distribution: its normalized name or its
\* key normalized-name:version is in the normalized exclude list, or the
\* include list is given and lacks its normalized name, or it is a system
\* package and --with-system is off
FilterRejects(pkg) ==
    LET name    == normalize_pkg_name(pkg.name)
        key     == name \o << ":" >> \o pkg.version
        exclude == {normalize_pkg_name(e) : e \in SeqToSet(args.ignore_packages)}
        include == {normalize_pkg_name(e) : e \in SeqToSet(args.packages)}
    IN  \/ name \in exclude
        \/ key \in exclude
        \/ include # {} /\ name \notin include
        \/ ~args.with_system /\ name \in SYSTEM_PACKAGES

\* C18: a distribution the filter drops is neither resolved nor checked
\* against the policy, nothing is written for it, and the loop goes on to
\* the next distribution.
C18_FilterBeforeEnforcement ==
    [][ (pc = "next" /\ idx < Len(pkgs) /\ FilterRejects(pkgs[idx + 1])) =>
            /\ idx' = idx + 1
            /\ pc' = "next"
            /\ UNCHANGED << pkg_info, license_names, failed_licenses,
                            uncommon_licenses, table, counts, stdout,
                            stderr, exit_code >> ]_vars

\* the run completed although a distribution the filter dropped has a
\* license of the fail-on list
C18_Witness ==
    /\ pc = "exit"
    /\ exit_code = 0
    /\ fail_on_licenses # {}
    /\ \E i \in 1..Len(pkgs) :
           /\ FilterRejects(pkgs[i])
           /\ PolicyIntersection(ResolvedSet(pkgs[i]), fail_on_licenses) # {}

\* ------------------------------------------------------------------------
\* Missing license data (SpecResolve)
\* ------------------------------------------------------------------------
\* the source args.from_ chooses has nothing for the distribution
NoLicenseData(pkg) ==
    LET no_meta       == pkg.license = << >>
        no_classifier == find_license_from_classifier(pkg.classifier) = << >>
    IN  CASE args.from_ = "CLASSIFIER" -> no_classifier
          [] args.from_ = "MIXED"      -> no_classifier /\ no_meta
          [] OTHER                     -> no_meta

\* C14: every distribution the filter lets through is resolved, whatever its
\* classifiers and declared license are; its resolved set is never empty and
\* holds no empty name, and it is {"UNKNOWN"} when the source the strategy
\* chooses has no data.
C14_UnknownWhenMissing ==
    idx = 1 =>
        /\ ~FilterRejects(pkgs[1]) => Accepted
        /\ Accepted =>
               /\ license_names # {}
               /\ << >> \notin license_names
               /\ NoLicenseData(pkgs[1]) => license_names = {LICENSE_UNKNOWN}

\* under MIXED a distribution with no declared license and a classifier
\* that names no license resolved to {"UNKNOWN"}
C14_Witness ==
    /\ Accepted
    /\ args.from_ = "MIXED"
    /\ pkgs[1].license = << >>
    /\ pkgs[1].classifier # << >>
    /\ license_names = {LICENSE_UNKNOWN}

\* ------------------------------------------------------------------------
\* normalize_pkg_name on its own (SpecNormalize)
\* ------------------------------------------------------------------------
NameChars == {"A", "b", "-", "_", "."}

ExampleName == << "M", "y", "_", "P", "k", "g", ".", "N", "a", "m", "e" >>

NameInputs == SeqsUpTo(NameChars, MaxNameLen) \cup {ExampleName}

InitNormalize ==
    /\ raw_name \in NameInputs
    /\ normalized = << >>
    /\ renormalized = << >>
    /\ normalize_calls = 0
    /\ RunIdle
    /\ MatchIdle
    /\ SelectIdle

\* normalized = normalize_pkg_name(raw_name)
Normalize ==
    /\ normalize_calls = 0
    /\ normalized' = normalize_pkg_name(raw_name)
    /\ normalize_calls' = 1
    /\ UNCHANGED << raw_name, renormalized, runVars, matchVars, selectVars >>

\* renormalized = normalize_pkg_name(normalized)
NormalizeAgain ==
    /\ normalize_calls = 1
    /\ renormalized' = normalize_pkg_name(normalized)
    /\ normalize_calls' = 2
    /\ UNCHANGED << raw_name, normalized, runVars, matchVars, selectVars >>

NextNormalize == Normalize \/ NormalizeAgain

SpecNormalize == InitNormalize /\ [][NextNormalize]_vars

\* x with the first character of every maximal run of "-", "_" and "."
\* turned into "-", the rest of the run dropped, and every other character
\* lower-cased
CollapsedRuns(x) ==
    LET IsDelimiter(i) == x[i] \in {"-", "_", "."}
        f[i \in 0..Len(x)] ==
            IF i = 0 THEN << >>
            ELSE IF ~IsDelimiter(i) THEN Append(f[i - 1], LowerChar(x[i]))
            ELSE IF i = 1 \/ ~IsDelimiter(i - 1) THEN Append(f[i - 1], "-")
            ELSE f[i - 1]
    IN  f[Len(x)]

\* C16: normalize_pkg_name turns every maximal run of "-", "_" and "." into
\* one "-" and lower-cases the name, "My_Pkg.Name" becomes "my-pkg-name",
\* and normalizing a normalized name changes nothing.
C16_NormalizeIdempotent ==
    /\ normalize_calls >= 1 =>
           /\ normalized = CollapsedRuns(raw_name)
           /\ raw_name = ExampleName =>
                  normalized = << "m", "y", "-", "p", "k", "g", "-",
                                  "n", "a", "m", "e" >>
    /\ normalize_calls = 2 => renormalized = normalized

\* a name with a run of two delimiters and an upper case letter was
\* normalized twice
C16_Witness ==
    /\ normalize_calls = 2
    /\ \E i \in 1..(Len(raw_name) - 1) :
           raw_name[i] \in PATTERN_DELIMITER /\ raw_name[i + 1] \in PATTERN_DELIMITER
    /\ \E i \in 1..Len(raw_name) : raw_name[i] = "A"
    /\ Len(renormalized) < Len(raw_name)

\* ------------------------------------------------------------------------
\* The policy lists as --fail-on and --allow-only give them (SpecTerms)
\* ------------------------------------------------------------------------
\* longest value of --fail-on and of --allow-only
MaxArgLen == 3

TermChars == {"a", " ", ";"}

TermArgs == SeqsUpTo(TermChars, MaxArgLen)

TermDistributions ==
    { [name |-> << "f", "o", "o" >>, version |-> << "2" >>, license |-> l,
       classifier |-> << >>] : l \in {<< "a" >>, << "b" >>} }

InitTerms ==
    /\ args \in [from_ : {"META"}, fail_on : TermArgs, allow_only : TermArgs,
                 partial_match : BOOLEAN, ignore_packages : {<< >>},
                 packages : {<< >>}, with_system : {FALSE},
                 summary : {FALSE}]
    /\ pkgs \in {<< d >> : d \in TermDistributions}
    /\ idx = 0
    /\ pc = "next"
    /\ pkg_info = NoPkgInfo
    /\ license_names = {}
    /\ failed_licenses = {}
    /\ uncommon_licenses = {}
    /\ table = << >>
    /\ counts = << >>
    /\ stdout = << >>
    /\ stderr = << >>
    /\ exit_code = -1
    /\ MatchIdle
    /\ SelectIdle
    /\ NormalizeIdle

NextTerms ==
    \/ Resolve
    \/ FailOnPass
    \/ FailOnReject
    \/ AllowOnlyPass
    \/ AllowOnlyReject
    \/ AllowOnlyRaise

SpecTerms == InitTerms /\ [][NextTerms]_vars

\* no white space at either end
IsTrimmed(t) == t = << >> \/ (t[1] # " " /\ t[Len(t)] # " ")

\* license l contains a non-empty term of the list, whatever the case
ContainsNonEmptyTerm(l, terms) ==
    \E t \in terms : t # << >> /\ Contains(Lower(t), Lower(l))

\* C19: once the policy lists are built, every term of fail_on_licenses and
\* allow_only_licenses is trimmed and non-empty, and under --partial-match a
\* license counts as matching fail-on, or as allowed by allow-only, only if
\* it contains a non-empty term of that list.
C19_TermsNonEmpty ==
    PastFailOn =>
        /\ \A t \in fail_on_licenses \cup allow_only_licenses :
               t # << >> /\ IsTrimmed(t)
        /\ (args.partial_match /\ FailOnRejected) =>
               \A l \in failed_licenses :
                   ContainsNonEmptyTerm(l, fail_on_licenses)
        /\ (args.partial_match /\ allow_only_licenses # {} /\ pc = "yield") =>
               \E l \in license_names :
                   ContainsNonEmptyTerm(l, allow_only_licenses)

====
